---- MODULE Spec2Model ----
(***************************************************************************)
(* Outlier detection and handling of quick_EDA.py: outliers_z_score,       *)
(* outliers_IQR and handle_outliers, over a pandas DataFrame.              *)
(*                                                                         *)
(* Arithmetic is exact.  A cell holds a number; the numbers the code can   *)
(* produce from whole-valued data are                                      *)
(*   [t |-> "q",  a, d |-> 0, n]   the rational a / n                      *)
(*   [t |-> "hi", a, d, n]         (a + 3 * sqrt(d)) / n                   *)
(*   [t |-> "lo", a, d, n]         (a - 3 * sqrt(d)) / n                   *)
(* with a counted in units of 1/Unit.  A column can be analysed again only *)
(* while all its cells are rationals with n = 1 (IsCell); a call that      *)
(* would need more than that is outside the model (its "exact" flag is     *)
(* FALSE and the action is disabled).                                      *)
(*                                                                         *)
(* CHOOSE r \in {F(v) : v \in {e}} : TRUE is F(e) with e evaluated once.    *)
(***************************************************************************)
EXTENDS Integers, Sequences, FiniteSets, TLC

VARIABLES df, hist

vars == <<df, hist>>

\* ---------------------------------------------------------------- bounds
MaxRows == 12
MaxCalls == 2

\* cell values are multiples of 1/Unit; whole data values are multiples of Unit
Unit == 8 * 8

\* ---------------------------------------------------------------- numbers
Sq(x) == x * x

Rat(v) == [t |-> "q", a |-> v, d |-> 0, n |-> 1]

IsCell(x) == x.t = "q" /\ x.n = 1

\* u < v, for the pairs of numbers the code compares
NumLT(u, v) ==
    CASE u.t = "q" /\ v.t = "q" -> u.a * v.n < v.a * u.n
      [] u.t = "q" /\ v.t = "hi" ->
            LET y == u.a * v.n - v.a * u.n IN y < 0 \/ Sq(y) < 9 * Sq(u.n) * v.d
      [] u.t = "q" /\ v.t = "lo" ->
            LET y == u.a * v.n - v.a * u.n IN y < 0 /\ Sq(y) > 9 * Sq(u.n) * v.d
      [] u.t = "hi" /\ v.t = "q" ->
            LET y == v.a * u.n - u.a * v.n IN y > 0 /\ Sq(y) > 9 * Sq(v.n) * u.d
      [] u.t = "lo" /\ v.t = "q" ->
            LET y == v.a * u.n - u.a * v.n IN y > 0 \/ Sq(y) < 9 * Sq(v.n) * u.d
      [] OTHER -> u.t = "lo" /\ v.t = "hi" /\ u.d > 0
                  /\ u.a = v.a /\ u.d = v.d /\ u.n = v.n

NumGT(u, v) == NumLT(v, u)

NumLE(u, v) == ~NumLT(v, u)

\* ---------------------------------------------------------------- sequences
Range(s) == {s[i] : i \in 1..Len(s)}

RECURSIVE SumTo(_, _)
SumTo(s, k) == IF k = 0 THEN 0 ELSE s[k] + SumTo(s, k - 1)

SumSeq(s) == SumTo(s, Len(s))

\* k-th smallest element (1-based) of a sequence of integers
Kth(s, k) ==
    CHOOSE v \in Range(s) :
        /\ Cardinality({i \in 1..Len(s) : s[i] < v}) < k
        /\ k <= Cardinality({i \in 1..Len(s) : s[i] <= v})

\* ---------------------------------------------------------------- strings
ToUpper(c) ==
    CASE c = "i" -> "I" [] c = "q" -> "Q" [] c = "r" -> "R" [] c = "z" -> "Z"
      [] c = "a" -> "A" [] c = "n" -> "N" [] c = "g" -> "G" [] c = "e" -> "E"
      [] OTHER -> c

Upper(s) == [i \in 1..Len(s) |-> ToUpper(s[i])]

RECURSIVE LStrip(_)
LStrip(s) == IF s # <<>> /\ s[1] = " " THEN LStrip(Tail(s)) ELSE s

RECURSIVE RStrip(_)
RStrip(s) == IF s # <<>> /\ s[Len(s)] = " " THEN RStrip(SubSeq(s, 1, Len(s) - 1)) ELSE s

Strip(s) == RStrip(LStrip(s))

\* ---------------------------------------------------------------- DataFrame
\* df = [index: row labels in row order, columns: column names in order,
\*       data: column name -> values in row order]
HasColumn(d, column) == column \in Range(d.columns)

ColExact(d, column) == \A i \in 1..Len(d.index) : IsCell(d.data[column][i])

\* Kept with the mask inverted: the flagged rows are the ones kept
KeptFlagged(d, labels) ==
    SelectSeq([i \in 1..Len(d.index) |-> i], LAMBDA i : d.index[i] \in labels)

\* the row positions whose label is not in labels, in row order
Kept(d, labels) ==
    SelectSeq([i \in 1..Len(d.index) |-> i], LAMBDA i : d.index[i] \notin labels)

Pick(s, pos) == [k \in 1..Len(pos) |-> s[pos[k]]]

\* Drop taking the labels for row positions
DropByPosition(d, labels) ==
    CHOOSE r \in {[index |-> Pick(d.index, pos), columns |-> d.columns,
                   data |-> [c \in DOMAIN d.data |-> Pick(d.data[c], pos)]] :
                  pos \in {SelectSeq([i \in 1..Len(d.index) |-> i],
                                     LAMBDA i : i \notin labels)}} : TRUE

\* df.drop(index=labels, inplace=True)
Drop(d, labels) ==
    CHOOSE r \in {[index |-> Pick(d.index, pos), columns |-> d.columns,
                   data |-> [c \in DOMAIN d.data |-> Pick(d.data[c], pos)]] :
                  pos \in {Kept(d, labels)}} : TRUE

\* SetWhere without the column: df.loc[mask] = value
SetWhereAnyColumn(d, mask, column, value) ==
    [d EXCEPT !.data = [c \in DOMAIN d.data |->
        [i \in 1..Len(d.index) |-> IF mask[i] THEN value ELSE d.data[c][i]]]]

\* df.loc[mask, column] = value
SetWhere(d, mask, column, value) ==
    [d EXCEPT !.data[column] =
        [i \in 1..Len(d.index) |-> IF mask[i] THEN value ELSE d.data[column][i]]]

\* ---------------------------------------------------------------- column names
Sentinel == "all_the_columns"

\* a columns argument is a str or a list of str
Str(name) == [isStr |-> TRUE, s |-> name, l |-> <<>>]

List(names) == [isStr |-> FALSE, s |-> "", l |-> names]

\* "converting singular value of str to list": the sentinel selects df.columns
ColumnList(d, columns) ==
    IF columns.isStr
    THEN IF columns.s = Sentinel THEN d.columns ELSE <<columns.s>>
    ELSE columns.l

\* ---------------------------------------------------------------- Z score
Values(d, column) == [i \in 1..Len(d.index) |-> d.data[column][i].a]

\* n, the sum S of the values, and D = n * (sum of squares) - S * S:
\* np_mean(feature) is S / n and np_std(feature) is sqrt(D) / n
Moments(vals) ==
    [n |-> Len(vals), S |-> SumSeq(vals),
     D |-> Len(vals) * SumSeq([i \in 1..Len(vals) |-> Sq(vals[i])]) - Sq(SumSeq(vals))]

Mean(m) == [t |-> "q", a |-> m.S, d |-> 0, n |-> m.n]

\* lower = -3*stdev + mean
ZLower(m) == IF m.D = 0 THEN Mean(m) ELSE [t |-> "lo", a |-> m.S, d |-> m.D, n |-> m.n]

\* upper = 3*stdev + mean
ZUpper(m) == IF m.D = 0 THEN Mean(m) ELSE [t |-> "hi", a |-> m.S, d |-> m.D, n |-> m.n]

\* Z = (feature - mean) / stdev, as the fraction num / sqrt(rad);
\* rad = 0 is 0 / 0, the float nan
ZScore(m, v) == [num |-> m.n * v - m.S, rad |-> m.D]

\* AbsGT3 with nan counted as beyond 3
AbsGT3OrNan(z) == z.rad = 0 \/ Sq(z.num) > 9 * z.rad

\* abs(Z) > 3; every comparison with nan is False
AbsGT3(z) == z.rad > 0 /\ Sq(z.num) > 9 * z.rad

ZRows(d, column, m) ==
    [i \in 1..Len(d.index) |->
        [id |-> d.index[i], value |-> d.data[column][i],
         z |-> ZScore(m, d.data[column][i].a)]]

\* one iteration of the loop of outliers_z_score, lines 101-121
ZCalc(d, column) ==
    CHOOSE r \in {[upper |-> ZUpper(m), lower |-> ZLower(m),
                   outliers |-> SelectSeq(ZRows(d, column, m), LAMBDA row : AbsGT3(row.z))] :
                  m \in {Moments(Values(d, column))}} : TRUE

\* ---------------------------------------------------------------- IQR
\* Quantile4 without interpolation: the order statistic below the position
Quantile4Lower(vals, r) == 4 * Kth(vals, (((Len(vals) - 1) * r) \div 4) + 1)

\* 4 * (the r/4 quantile of vals), pandas' linear interpolation:
\* position (n-1)*r/4 between the two neighbouring order statistics
Quantile4(vals, r) ==
    LET p4 == (Len(vals) - 1) * r
        lo == (p4 \div 4) + 1
        fr == p4 % 4
    IN  IF fr = 0 THEN 4 * Kth(vals, lo)
        ELSE 4 * Kth(vals, lo) + fr * (Kth(vals, lo + 1) - Kth(vals, lo))

\* q1,q3=feature.describe().iloc[[4,6]], each times 4
Quartiles(vals) == [q1 |-> Quantile4(vals, 1), q3 |-> Quantile4(vals, 3)]

\* upper = q3 + 1.5*iqr
IQRUpper(q) == [t |-> "q", a |-> 2 * q.q3 + 3 * (q.q3 - q.q1), d |-> 0, n |-> 8]

\* lower = q1 - 1.5*iqr
IQRLower(q) == [t |-> "q", a |-> 2 * q.q1 - 3 * (q.q3 - q.q1), d |-> 0, n |-> 8]

\* mask= (feature<lower) | (feature>upper)
Outside(v, lower, upper) == NumLT(v, lower) \/ NumGT(v, upper)

IQRRows(d, column) ==
    [i \in 1..Len(d.index) |-> [id |-> d.index[i], value |-> d.data[column][i]]]

\* one iteration of the loop of outliers_IQR, lines 174-191
IQRCalc(d, column) ==
    CHOOSE r \in {[upper |-> IQRUpper(q), lower |-> IQRLower(q),
                   outliers |-> SelectSeq(IQRRows(d, column),
                                   LAMBDA row : Outside(row.value, IQRLower(q), IQRUpper(q)))] :
                  q \in {Quartiles(Values(d, column))}} : TRUE

\* ---------------------------------------------------------------- the two analysers
\* the result of a call: how it ended, what it returned (<<>> is None),
\* what it printed, and whether the model's arithmetic covered it
Result(status, ret, out, exact) ==
    [status |-> status, ret |-> ret, out |-> out, exact |-> exact]

Report(method, column, r) ==
    [what |-> method, column |-> column, lower |-> r.lower, upper |-> r.upper,
     total |-> Len(r.outliers), outliers |-> r.outliers]

\* for column in columns, from position i: lines 96-136
RECURSIVE ZLoop(_, _, _, _, _)
ZLoop(d, cols, i, mode, out) ==
    IF i > Len(cols) THEN Result("ok", <<>>, out, TRUE)
    ELSE IF ~HasColumn(d, cols[i]) THEN Result("KeyError", <<>>, out, TRUE)
    ELSE IF ~ColExact(d, cols[i]) THEN Result("ok", <<>>, out, FALSE)
    ELSE IF mode = "return" THEN Result("ok", <<ZCalc(d, cols[i])>>, out, TRUE)
    ELSE CHOOSE r \in {ZLoop(d, cols, i + 1, mode, o) :
                       o \in {Append(out, Report("Z", cols[i], ZCalc(d, cols[i])))}} : TRUE

outliers_z_score(d, columns, mode) == ZLoop(d, ColumnList(d, columns), 1, mode, <<>>)

\* for column in columns, from position i: lines 170-205
RECURSIVE IQRLoop(_, _, _, _, _)
IQRLoop(d, cols, i, mode, out) ==
    IF i > Len(cols) THEN Result("ok", <<>>, out, TRUE)
    ELSE IF ~HasColumn(d, cols[i]) THEN Result("KeyError", <<>>, out, TRUE)
    ELSE IF ~ColExact(d, cols[i]) THEN Result("ok", <<>>, out, FALSE)
    ELSE IF mode = "return" THEN Result("ok", <<IQRCalc(d, cols[i])>>, out, TRUE)
    ELSE CHOOSE r \in {IQRLoop(d, cols, i + 1, mode, o) :
                       o \in {Append(out, Report("IQR", cols[i], IQRCalc(d, cols[i])))}} : TRUE

outliers_IQR(d, columns, mode) == IQRLoop(d, ColumnList(d, columns), 1, mode, <<>>)

\* ---------------------------------------------------------------- handle_outliers
\* the locals upper, lower, outliers of handle_outliers; unbound until assigned
Unbound == [bound |-> FALSE, upper |-> Rat(0), lower |-> Rat(0), outliers |-> <<>>]

Bound(r) == [bound |-> TRUE, upper |-> r.upper, lower |-> r.lower, outliers |-> r.outliers]

Ids(outliers) == {outliers[k].id : k \in 1..Len(outliers)}

\* a bound can be written into a cell when the grid holds it
Storable(x) == x.t # "q" \/ x.a % x.n = 0

Store(x) == IF x.t = "q" THEN Rat(x.a \div x.n) ELSE x

\* df[column] > upper
Above(d, column, upper) == [i \in 1..Len(d.index) |-> NumGT(d.data[column][i], upper)]

\* df[column] < lower
Below(d, column, lower) == [i \in 1..Len(d.index) |-> NumLT(d.data[column][i], lower)]

Some(mask) == \E i \in DOMAIN mask : mask[i]

\* df.loc[ df[column] > upper, column] = upper, line 394
ClampUpper(d, column, upper) == SetWhere(d, Above(d, column, upper), column, Store(upper))

\* ClampLower with the comparison turned round
ClampLowerFlipped(d, column, lower) ==
    SetWhere(d, [i \in 1..Len(d.index) |-> NumGT(d.data[column][i], lower)],
             column, Store(lower))

\* df.loc[ df[column] < lower, column] = lower, line 395
ClampLower(d, column, lower) == SetWhere(d, Below(d, column, lower), column, Store(lower))

\* lines 394-395
Compress(d, column, upper, lower) ==
    CHOOSE r \in {ClampLower(d1, column, lower) : d1 \in {ClampUpper(d, column, upper)}} : TRUE

CompressExact(d, column, upper, lower) ==
    /\ Some(Above(d, column, upper)) => Storable(upper)
    /\ Some(Below(ClampUpper(d, column, upper), column, lower)) => Storable(lower)

\* line 389
Remove(d, outliers) == Drop(d, Ids(outliers))

\* Analyse as if / else: whatever is not IQR is taken for Z
AnalyseElseZ(d, column, method) ==
    IF method = <<"I", "Q", "R">> THEN outliers_IQR(d, Str(column), "return")
    ELSE outliers_z_score(d, Str(column), "return")

\* lines 377-384: the two conditionals on using.strip().upper()
Analyse(d, column, method) ==
    IF method = <<"I", "Q", "R">> THEN outliers_IQR(d, Str(column), "return")
    ELSE IF method = <<"Z">> THEN outliers_z_score(d, Str(column), "return")
    ELSE Result("skipped", <<>>, <<>>, TRUE)

\* the state of a call of handle_outliers: its status, the DataFrame, the
\* locals, what it printed, and what each iteration computed
HState(status, d, loc, out, steps, exact) ==
    [status |-> status, df |-> d, loc |-> loc, out |-> out, steps |-> steps,
     exact |-> exact]

Raise(st, status) == [st EXCEPT !.status = status]

Printed(what, column, outliers) == [what |-> what, column |-> column, outliers |-> outliers]

Rule == Printed("rule", "", <<>>)

\* lines 386-398, with the locals as assigned by lines 377-384
Act(st, column, action) ==
    IF action = "remove" THEN
        IF ~st.loc.bound THEN Raise(st, "UnboundLocalError")
        ELSE [st EXCEPT !.df = Remove(st.df, st.loc.outliers),
                        !.out = @ \o <<Printed("Removed", column, st.loc.outliers), Rule>>]
    ELSE IF action = "compress" THEN
        IF ~HasColumn(st.df, column) THEN Raise(st, "KeyError")
        ELSE IF ~st.loc.bound THEN Raise(st, "UnboundLocalError")
        ELSE IF \/ ~ColExact(st.df, column)
                \/ ~CompressExact(st.df, column, st.loc.upper, st.loc.lower)
             THEN [st EXCEPT !.exact = FALSE]
        ELSE [st EXCEPT !.df = Compress(st.df, column, st.loc.upper, st.loc.lower),
                        !.out = @ \o <<Printed("Compressed", column, st.loc.outliers), Rule>>]
    ELSE [st EXCEPT !.out = Append(@, Rule)]

\* Assign that keeps the bounds of the first column for the later ones
AssignOnce(st, column, r) ==
    IF ~r.exact THEN [st EXCEPT !.exact = FALSE]
    ELSE IF r.status = "KeyError" THEN Raise(st, "KeyError")
    ELSE IF r.status = "skipped" \/ st.loc.bound THEN st
    ELSE IF r.ret = <<>> THEN Raise(st, "TypeError")
    ELSE [st EXCEPT !.loc = Bound(r.ret[1]),
                    !.steps = Append(@, [column |-> column, upper |-> r.ret[1].upper,
                                         lower |-> r.ret[1].lower,
                                         outliers |-> r.ret[1].outliers])]

\* lines 377-384, r being what the analyser called there gave
Assign(st, column, r) ==
    IF ~r.exact THEN [st EXCEPT !.exact = FALSE]
    ELSE IF r.status = "KeyError" THEN Raise(st, "KeyError")
    ELSE IF r.status = "skipped" THEN st
    ELSE IF r.ret = <<>> THEN Raise(st, "TypeError")
    ELSE [st EXCEPT !.loc = Bound(r.ret[1]),
                    !.steps = Append(@, [column |-> column, upper |-> r.ret[1].upper,
                                         lower |-> r.ret[1].lower,
                                         outliers |-> r.ret[1].outliers])]

\* one iteration of the loop, lines 376-398
HandleIter(st, column, method, action) ==
    CHOOSE s2 \in {IF s1.status = "ok" /\ s1.exact THEN Act(s1, column, action) ELSE s1 :
                   s1 \in {Assign(st, column, r) : r \in {Analyse(st.df, column, method)}}} :
        TRUE

\* for column in columns, from position i: line 374
RECURSIVE HandleLoop(_, _, _, _, _)
HandleLoop(st, cols, i, method, action) ==
    IF i > Len(cols) \/ st.status # "ok" \/ ~st.exact THEN st
    ELSE CHOOSE r \in {HandleLoop(s1, cols, i + 1, method, action) :
                       s1 \in {HandleIter(st, cols[i], method, action)}} : TRUE

\* lines 370-398
handle_outliers(d, columns, using, action) ==
    HandleLoop(HState("ok", d, Unbound, <<>>, <<>>, TRUE),
               IF columns.isStr THEN <<columns.s>> ELSE columns.l, 1,
               Upper(Strip(using)), action)

\* ---------------------------------------------------------------- inputs
\* column A is <<a1, a2, 0, ..., 0, a3>>, column B is 0 but for one 8
MkA(n, a1, a2, a3) ==
    [i \in 1..n |-> Rat(Unit * (IF i = n THEN a3 ELSE IF i = 1 THEN a1
                                 ELSE IF i = 2 THEN a2 ELSE 0))]

MkB(n, b) == [i \in 1..n |-> Rat(Unit * (IF i = b THEN 8 ELSE 0))]

Frame(a, b) ==
    [index |-> [i \in 1..Len(a) |-> i - 1], columns |-> <<"A", "B">>,
     data |-> [c \in {"A", "B"} |-> IF c = "A" THEN a ELSE b]]

Whole(s) == [i \in 1..Len(s) |-> Rat(Unit * s[i])]

\* the two concrete columns of the specification's scenarios
ScenarioIQR == Frame(Whole(<<1, 2, 3, 4, 5, 100>>), MkB(6, 0))

ScenarioZ == Frame(Whole(<<10, 10, 10, 10, 10>>), MkB(5, 3))

Datasets ==
    {Frame(MkA(n, a1, a2, a3), MkB(n, b)) :
        n \in 1..MaxRows, a1 \in {-8, 0, 8}, a2 \in {0, 1}, a3 \in {0, 8}, b \in {0, 2, 3}}
    \cup {ScenarioIQR, ScenarioZ}

HandleColumns ==
    {Str("A"), List(<<>>), List(<<"B">>), List(<<"A", "B">>), List(<<"B", "A">>),
     List(<<"X">>), List(<<"A", "X">>), List(<<"A", "X", "B">>),
     List(<<Sentinel>>), List(<<"B", Sentinel>>)}

ReadColumns ==
    {Str(Sentinel), Str("A"), Str("X"), List(<<>>), List(<<"B">>),
     List(<<"A", "B">>), List(<<"B", "A">>), List(<<"A", "X">>)}

Methods == {<<"Z">>, <<" ", "i", "q", "r", " ">>, <<"r", "a", "n", "g", "e">>}

Actions == {"remove", "compress", "keep"}

Modes == {"return", "print"}

\* ---------------------------------------------------------------- the session
Call(fn, columns, using, action) ==
    [fn |-> fn, columns |-> columns, using |-> using, action |-> action]

LastCall ==
    LET h == hist[Len(hist)] IN Call(h.fn, h.columns, h.using, h.action)

\* a session is one call, made up to MaxCalls times in succession
MayCall(c) == Len(hist) < MaxCalls /\ (hist # <<>> => c = LastCall)

Entry(c, pre, post, status, ret, out, steps) ==
    [fn |-> c.fn, columns |-> c.columns, using |-> c.using, action |-> c.action,
     pre |-> pre, post |-> post, status |-> status, ret |-> ret, out |-> out,
     steps |-> steps]

Init == df \in Datasets /\ hist = <<>>

HandleOutliers(columns, using, action) ==
    /\ MayCall(Call("handle_outliers", columns, using, action))
    /\ \E r \in {handle_outliers(df, columns, using, action)} :
        /\ r.exact
        /\ df' = r.df
        /\ hist' = Append(hist, Entry(Call("handle_outliers", columns, using, action),
                                      df, r.df, r.status, <<>>, r.out, r.steps))

OutliersZScore(columns, mode) ==
    /\ MayCall(Call("outliers_z_score", columns, <<>>, mode))
    /\ \E r \in {outliers_z_score(df, columns, mode)} :
        /\ r.exact
        /\ df' = df
        /\ hist' = Append(hist, Entry(Call("outliers_z_score", columns, <<>>, mode),
                                      df, df, r.status, r.ret, r.out, <<>>))

OutliersIQR(columns, mode) ==
    /\ MayCall(Call("outliers_IQR", columns, <<>>, mode))
    /\ \E r \in {outliers_IQR(df, columns, mode)} :
        /\ r.exact
        /\ df' = df
        /\ hist' = Append(hist, Entry(Call("outliers_IQR", columns, <<>>, mode),
                                      df, df, r.status, r.ret, r.out, <<>>))

Next ==
    \/ \E columns \in HandleColumns, using \in Methods, action \in Actions :
          HandleOutliers(columns, using, action)
    \/ \E columns \in ReadColumns, mode \in Modes : OutliersZScore(columns, mode)
    \/ \E columns \in ReadColumns, mode \in Modes : OutliersIQR(columns, mode)

Spec == Init /\ [][Next]_vars

\* ---------------------------------------------------------------- reading the history
Calls == {hist[k] : k \in 1..Len(hist)}

\* the calls that directly follow an identical call
Repeats == 2..Len(hist)

Cols(h) == IF h.columns.isStr THEN <<h.columns.s>> ELSE h.columns.l

Named(h) == Upper(Strip(h.using))

Recognized(h) == Named(h) \in {<<"Z">>, <<"I", "Q", "R">>}

Mutating(h) == h.fn = "handle_outliers" /\ h.action \in {"remove", "compress"}

\* handle_outliers(df, C, method, action) for one column C of the dataset, run to its end
OnOneColumn(h, action) ==
    /\ h.fn = "handle_outliers" /\ h.action = action /\ Recognized(h)
    /\ Len(Cols(h)) = 1 /\ HasColumn(h.pre, Cols(h)[1])
    /\ h.status = "ok"

NumEq(u, v) ==
    IF u.t = "q" /\ v.t = "q" THEN u.a * v.n = v.a * u.n ELSE u = v

Within(v, lower, upper) == NumLE(lower, v) /\ NumLE(v, upper)

Flagged(h, i) == h.pre.index[i] \in Ids(h.steps[1].outliers)

\* ---------------------------------------------------------------- C1
\* C1 as stated: Compress is idempotent: when handle_outliers(df, C, method,
\* 'compress') is called twice in succession, the second call changes no value.
C1_CompressIdempotent ==
    \A k \in Repeats :
        OnOneColumn(hist[k], "compress") => hist[k].post = hist[k].pre

\* C1 amended: the second of two successive Compress calls on C changes no
\* value whenever the bounds it recomputes from the clamped column equal the
\* first call's bounds; and when the first call flagged no row, neither call
\* changes the dataset.
C1_CompressIdempotentWhenBoundsStay ==
    \A k \in Repeats :
        OnOneColumn(hist[k], "compress") =>
            /\ (/\ hist[k].steps[1].upper = hist[k - 1].steps[1].upper
                /\ hist[k].steps[1].lower = hist[k - 1].steps[1].lower)
               => hist[k].post = hist[k].pre
            /\ hist[k - 1].steps[1].outliers = <<>>
               => hist[k].post = hist[k - 1].pre

\* two successive Compress calls, the first of which clamped a cell and the
\* second of which recomputed the same bounds
C1_Witness ==
    \E k \in Repeats :
        /\ OnOneColumn(hist[k], "compress")
        /\ hist[k - 1].steps[1].outliers # <<>>
        /\ hist[k - 1].post # hist[k - 1].pre
        /\ hist[k].steps[1].upper = hist[k - 1].steps[1].upper
        /\ hist[k].steps[1].lower = hist[k - 1].steps[1].lower

\* ---------------------------------------------------------------- C2
\* C2 as stated: Remove reaches a fixed point in one pass: the second of two
\* successive handle_outliers(df, C, method, 'remove') calls computes an empty
\* outlier set and removes no row.
C2_RemoveFixedPoint ==
    \A k \in Repeats :
        OnOneColumn(hist[k], "remove") =>
            hist[k].steps[1].outliers = <<>> /\ hist[k].post = hist[k].pre

\* C2 amended: after handle_outliers(df, C, method, 'remove') every remaining
\* value of C lies within the bounds that call computed; a second identical
\* call, which recomputes the bounds on the reduced column, flags and removes
\* nothing when the first call flagged nothing.
C2_RemoveLeavesInBounds ==
    /\ \A h \in Calls :
          OnOneColumn(h, "remove") =>
              \A i \in 1..Len(h.post.index) :
                  Within(h.post.data[Cols(h)[1]][i], h.steps[1].lower, h.steps[1].upper)
    /\ \A k \in Repeats :
          (OnOneColumn(hist[k], "remove") /\ hist[k - 1].steps[1].outliers = <<>>)
              => hist[k].steps[1].outliers = <<>> /\ hist[k].post = hist[k - 1].pre

\* two successive Remove calls, the first of which removed a row and the second none
C2_Witness ==
    \E k \in Repeats :
        /\ OnOneColumn(hist[k], "remove")
        /\ hist[k - 1].steps[1].outliers # <<>>
        /\ Len(hist[k - 1].post.index) < Len(hist[k - 1].pre.index)
        /\ hist[k].steps[1].outliers = <<>>

\* ---------------------------------------------------------------- C3
\* the position in d of the row labelled id
PosOf(d, id) == CHOOSE i \in 1..Len(d.index) : d.index[i] = id

\* C3: Remove deletes whole rows and exactly the flagged ones: the remaining
\* row labels are the original ones without those flagged in column A, in
\* their original order; every column has lost the flagged rows; every
\* remaining row keeps its value in every column.
C3_RemoveDropsFlaggedRows ==
    \A h \in Calls :
        OnOneColumn(h, "remove") =>
            /\ h.post.index =
                  SelectSeq(h.pre.index, LAMBDA id : id \notin Ids(h.steps[1].outliers))
            /\ h.post.columns = h.pre.columns
            /\ \A c \in Range(h.pre.columns) :
                  /\ Len(h.post.data[c]) = Len(h.post.index)
                  /\ \A i \in 1..Len(h.post.index) :
                        h.post.data[c][i] = h.pre.data[c][PosOf(h.pre, h.post.index[i])]

\* a Remove on column A that deleted a row holding the 8 of column B,
\* and kept a row after it
C3_Witness ==
    \E h \in Calls :
        /\ OnOneColumn(h, "remove") /\ Cols(h) = <<"A">>
        /\ \E i \in 1..Len(h.pre.index) :
              /\ Flagged(h, i)
              /\ h.pre.data["B"][i] # Rat(0)
              /\ h.pre.index[i] \notin Range(h.post.index)
              /\ \E j \in 1..Len(h.post.index) : h.post.index[j] > h.pre.index[i]

\* ---------------------------------------------------------------- C4
\* C4: Compress changes only the flagged cells of the target column: the rows
\* and the other columns are unchanged, an unflagged cell keeps its value, a
\* flagged cell above upper becomes upper and one below lower becomes lower
\* (the bounds computed before the mutation), the cells changed are exactly
\* the reported outliers, and all values of C end within [lower, upper].
C4_CompressClampsFlaggedCells ==
    \A h \in Calls :
        OnOneColumn(h, "compress") =>
            LET C == Cols(h)[1]
                upper == h.steps[1].upper
                lower == h.steps[1].lower
            IN  /\ h.post.index = h.pre.index
                /\ h.post.columns = h.pre.columns
                /\ \A c \in Range(h.pre.columns) \ {C} : h.post.data[c] = h.pre.data[c]
                /\ \A i \in 1..Len(h.pre.index) :
                      LET old == h.pre.data[C][i]
                          new == h.post.data[C][i]
                      IN  /\ ~Flagged(h, i) => new = old
                          /\ (Flagged(h, i) /\ NumGT(old, upper)) => NumEq(new, upper)
                          /\ (Flagged(h, i) /\ NumLT(old, lower)) => NumEq(new, lower)
                          /\ (new # old) <=> Flagged(h, i)
                          /\ Within(new, lower, upper)

\* a Compress by Z score that clamped a cell to the upper bound
C4_Witness ==
    \E h \in Calls :
        /\ OnOneColumn(h, "compress") /\ Named(h) = <<"Z">>
        /\ \E i \in 1..Len(h.pre.index) :
              /\ Flagged(h, i)
              /\ NumGT(h.pre.data[Cols(h)[1]][i], h.steps[1].upper)
              /\ h.post.data[Cols(h)[1]][i] = h.steps[1].upper

\* ---------------------------------------------------------------- C5
NoReport(h) == \A k \in 1..Len(h.out) : h.out[k].what = "rule"

Reading(h) == h.fn \in {"outliers_z_score", "outliers_IQR"}

CalcOf(h, column) ==
    IF h.fn = "outliers_IQR" THEN IQRCalc(h.pre, column) ELSE ZCalc(h.pre, column)

\* C6: read mode yields one result per selected column: with mode='return'
\* and a selector naming k >= 1 columns of the dataset, the call produces the
\* triple (upper, lower, outliers) of each of the k columns, in the order
\* given, and does not change the dataset.
C6_ReadModeOneTriplePerColumn ==
    \A h \in Calls :
        LET cols == ColumnList(h.pre, h.columns) IN
        (/\ Reading(h) /\ h.action = "return" /\ Len(cols) >= 1
         /\ \A j \in 1..Len(cols) : HasColumn(h.pre, cols[j])) =>
            /\ h.status = "ok"
            /\ h.post = h.pre
            /\ Len(h.ret) = Len(cols)
            /\ \A j \in 1..Len(h.ret) : h.ret[j] = CalcOf(h, cols[j])

\* ---------------------------------------------------------------- C7
\* the p-th percentile (p = 25 or 75) of vals by linear interpolation: at the
\* fractional rank (n-1)*p/100 of the sorted values
Percentile(vals, p) ==
    LET rank == (Len(vals) - 1) * p
        below == Kth(vals, (rank \div 100) + 1)
        above == IF rank % 100 = 0 THEN below ELSE Kth(vals, (rank \div 100) + 2)
    IN  [t |-> "q", a |-> 100 * below + (rank % 100) * (above - below), d |-> 0, n |-> 100]

\* Q1 - 1.5 * (Q3 - Q1) and Q3 + 1.5 * (Q3 - Q1)
TukeyLower(vals) ==
    LET q1 == Percentile(vals, 25).a
        q3 == Percentile(vals, 75).a
    IN  [t |-> "q", a |-> 2 * q1 - 3 * (q3 - q1), d |-> 0, n |-> 200]

TukeyUpper(vals) ==
    LET q1 == Percentile(vals, 25).a
        q3 == Percentile(vals, 75).a
    IN  [t |-> "q", a |-> 2 * q3 + 3 * (q3 - q1), d |-> 0, n |-> 200]

\* p / q, a number of whole units
Frac(p, q) == [t |-> "q", a |-> p * Unit, d |-> 0, n |-> q]

\* C7: outliers_IQR returns the Tukey fences of the linearly interpolated
\* quartiles, lower <= upper, and as outliers exactly the rows whose value
\* is below lower or above upper, in row order, so that every other value is
\* within the fences; for the column [1,2,3,4,5,100]: Q1 = 2.25, Q3 = 4.75,
\* lower = -1.5, upper = 8.5 and the one outlier 100.
C7_IQRTukeyFences ==
    \A h \in Calls :
        (h.fn = "outliers_IQR" /\ h.action = "return" /\ h.status = "ok" /\ h.ret # <<>>) =>
            LET c == ColumnList(h.pre, h.columns)[1]
                vals == Values(h.pre, c)
                r == h.ret[1]
                out == [i \in 1..Len(vals) |->
                           \/ NumLT(h.pre.data[c][i], TukeyLower(vals))
                           \/ NumGT(h.pre.data[c][i], TukeyUpper(vals))]
            IN  /\ NumEq(r.lower, TukeyLower(vals))
                /\ NumEq(r.upper, TukeyUpper(vals))
                /\ NumLE(r.lower, r.upper)
                /\ r.outliers = SelectSeq(IQRRows(h.pre, c), LAMBDA row : out[PosOf(h.pre, row.id)])
                /\ \A i \in 1..Len(vals) :
                      ~out[i] => Within(h.pre.data[c][i], r.lower, r.upper)
                /\ (h.pre = ScenarioIQR /\ c = "A") =>
                      /\ NumEq(Percentile(vals, 25), Frac(9, 4))
                      /\ NumEq(Percentile(vals, 75), Frac(19, 4))
                      /\ NumEq(r.lower, Frac(-3, 2))
                      /\ NumEq(r.upper, Frac(17, 2))
                      /\ r.outliers = <<[id |-> 5, value |-> Rat(100 * Unit)]>>

\* outliers_IQR has returned the result for the column [1,2,3,4,5,100]
C7_Witness ==
    \E h \in Calls :
        /\ h.fn = "outliers_IQR" /\ h.action = "return" /\ h.status = "ok"
        /\ h.pre = ScenarioIQR /\ ColumnList(h.pre, h.columns)[1] = "A"
        /\ Len(h.ret[1].outliers) = 1

\* ---------------------------------------------------------------- C8
\* all values of the column are one value
ZeroSpread(d, column) ==
    \A i \in 1..Len(d.index) : d.data[column][i] = d.data[column][1]

\* C8: zero spread flags nothing under Z score: for a column whose values all
\* equal v, outliers_z_score returns lower = upper = v and no outlier, and
\* handle_outliers with method Z and action 'remove' or 'compress' on such
\* columns leaves the dataset unchanged.
C8_ZeroSpreadFlagsNothing ==
    \A h \in Calls :
        /\ (/\ h.fn = "outliers_z_score" /\ h.action = "return" /\ h.status = "ok"
            /\ h.ret # <<>> /\ ZeroSpread(h.pre, ColumnList(h.pre, h.columns)[1])) =>
              LET v == h.pre.data[ColumnList(h.pre, h.columns)[1]][1] IN
              /\ NumEq(h.ret[1].lower, v) /\ NumEq(h.ret[1].upper, v)
              /\ h.ret[1].outliers = <<>>
        /\ (/\ Mutating(h) /\ Named(h) = <<"Z">> /\ Cols(h) # <<>>
            /\ \A j \in 1..Len(Cols(h)) :
                  HasColumn(h.pre, Cols(h)[j]) /\ ZeroSpread(h.pre, Cols(h)[j])) =>
              /\ h.status = "ok" /\ h.post = h.pre
              /\ \A j \in 1..Len(h.steps) : h.steps[j].outliers = <<>>

\* handle_outliers by Z score has run on the column [10,10,10,10,10]
C8_Witness ==
    \E h \in Calls :
        /\ Mutating(h) /\ Named(h) = <<"Z">> /\ h.action = "remove"
        /\ h.pre = ScenarioZ /\ Cols(h) = <<"A">>
        /\ h.steps # <<>> /\ h.steps[1].upper = Mean(Moments(Values(h.pre, "A")))

\* ---------------------------------------------------------------- C9
Absent(h) == {j \in 1..Len(Cols(h)) : ~HasColumn(h.pre, Cols(h)[j])}

FirstAbsent(h) == CHOOSE j \in Absent(h) : \A i \in Absent(h) : j <= i

\* what C9 says of a call
FailsAtFirstAbsent(h) ==
    /\ h.status = "KeyError"
    /\ Len(h.steps) = FirstAbsent(h) - 1
    /\ h.post = handle_outliers(h.pre, List(SubSeq(Cols(h), 1, FirstAbsent(h) - 1)),
                                h.using, h.action).df

\* C9: a multi-column mutating call is not atomic: when a column of the list
\* is absent from the dataset, the call fails with a lookup error at the
\* first such column before computing anything for it, the dataset is as
\* after handling the columns before it, and no later column is processed.
C9_FailsAtAbsentColumn ==
    \A h \in Calls :
        (Mutating(h) /\ Recognized(h) /\ Absent(h) # {}) => FailsAtFirstAbsent(h)

\* C9 holds of every absent column name but the sentinel 'all_the_columns'
C9_ExceptSentinel ==
    \A h \in Calls :
        (/\ Mutating(h) /\ Recognized(h) /\ Absent(h) # {}
         /\ Cols(h)[FirstAbsent(h)] # Sentinel) => FailsAtFirstAbsent(h)

\* ---------------------------------------------------------------- C10
Perms(s) ==
    {p \in [1..Len(s) -> Range(s)] : \A i, j \in 1..Len(s) : p[i] = p[j] => i = j}

Distinct(s) == \A i, j \in 1..Len(s) : s[i] = s[j] => i = j

\* C10: Compress over several columns is order-independent: for a list of
\* distinct columns of the dataset, handle_outliers(df, columns, method,
\* 'compress') ends with the same dataset for every permutation of the list.
C10_CompressOrderIndependent ==
    \A h \in Calls :
        (/\ h.fn = "handle_outliers" /\ h.action = "compress"
         /\ Len(Cols(h)) >= 2 /\ Distinct(Cols(h))
         /\ \A j \in 1..Len(Cols(h)) : HasColumn(h.pre, Cols(h)[j])) =>
            \A p \in Perms(Cols(h)) :
                \E r \in {handle_outliers(h.pre, List(p), h.using, "compress")} :
                    r.df = h.post /\ r.status = h.status

\* a Compress over two columns that clamped a cell in each
C10_Witness ==
    \E h \in Calls :
        /\ h.fn = "handle_outliers" /\ h.action = "compress" /\ h.status = "ok"
        /\ Len(Cols(h)) = 2 /\ Distinct(Cols(h)) /\ Len(h.steps) = 2
        /\ h.steps[1].outliers # <<>> /\ h.steps[2].outliers # <<>>
        /\ h.post.data["A"] # h.pre.data["A"] /\ h.post.data["B"] # h.pre.data["B"]

====
